---- MODULE Spec2Model ----
(***************************************************************************)
(* A model of src/index.ts of splat-transform: the conversion pipeline     *)
(* convertGsplat (readFile, validation, processDataTable, combine,         *)
(* writeFile) over a small file system, and the pure functions combine,    *)
(* getOutputFormat and isGSDataTable.                                      *)
(***************************************************************************)
EXTENDS Integers, Sequences, FiniteSets, TLC

\* ------------------------------------------------------------------------
\* Bounds of the model
\* ------------------------------------------------------------------------

\* number of convertGsplat invocations
NumCalls == 2
\* number of distinct temporary names a target can get (pid.time.random)
NumNonces == 2
\* number of chunks a writer codec appends to the temporary file
OutLen == 2
\* combine: most tables in the input sequence
MaxTables == 2
\* combine: most columns of one input table
MaxCols == 2
\* combine: most rows of one input table
MaxRows == 2

\* ------------------------------------------------------------------------
\* Strings: a filename is a sequence of one-character strings
\* ------------------------------------------------------------------------

LowerChar(ch) ==
    CASE ch = "A" -> "a" [] ch = "B" -> "b" [] ch = "C" -> "c"
      [] ch = "D" -> "d" [] ch = "E" -> "e" [] ch = "F" -> "f"
      [] ch = "G" -> "g" [] ch = "H" -> "h" [] ch = "I" -> "i"
      [] ch = "J" -> "j" [] ch = "K" -> "k" [] ch = "L" -> "l"
      [] ch = "M" -> "m" [] ch = "N" -> "n" [] ch = "O" -> "o"
      [] ch = "P" -> "p" [] ch = "Q" -> "q" [] ch = "R" -> "r"
      [] ch = "S" -> "s" [] ch = "T" -> "t" [] ch = "U" -> "u"
      [] ch = "V" -> "v" [] ch = "W" -> "w" [] ch = "X" -> "x"
      [] ch = "Y" -> "y" [] ch = "Z" -> "z"
      [] OTHER -> ch

toLowerCase(s) == [i \in 1..Len(s) |-> LowerChar(s[i])]

endsWith(s, suffix) ==
    /\ Len(suffix) <= Len(s)
    /\ SubSeq(s, Len(s) - Len(suffix) + 1, Len(s)) = suffix

\* ------------------------------------------------------------------------
\* Column / DataTable (src/data-table), after the data model of the specification
\* ------------------------------------------------------------------------

\* the zero value a freshly constructed typed array holds
Zero(dataType) == 0

Column(name, dataType, data) ==
    [name |-> name, dataType |-> dataType, data |-> data]

DataTable(columns) == [columns |-> columns]

numRows(dataTable) == Len(dataTable.columns[1].data)

hasColumn(dataTable, name) ==
    \E i \in 1..Len(dataTable.columns) : dataTable.columns[i].name = name

\* ------------------------------------------------------------------------
\* combine
\* ------------------------------------------------------------------------

\* a mutant of findMatchingColumn: columns are matched by name alone
findMatchingColumnByName(columns, column) ==
    LET idx == {i \in 1..Len(columns) : columns[i].name = column.name}
    IN  IF idx = {} THEN 0 ELSE CHOOSE i \in idx : \A k \in idx : i <= k

\* the index of the first column with the name and the data type of
\* `column`, 0 for null
findMatchingColumn(columns, column) ==
    LET idx == {i \in 1..Len(columns) :
                    /\ columns[i].name = column.name
                    /\ columns[i].dataType = column.dataType}
    IN  IF idx = {} THEN 0 ELSE CHOOSE i \in idx : \A k \in idx : i <= k

\* a mutant of the unique-list construction: every column of a later
\* table is pushed, matching or not
RECURSIVE PushAllColumns(_, _, _)
PushAllColumns(columns, tableColumns, j) ==
    IF j > Len(tableColumns) THEN columns
    ELSE PushAllColumns(Append(columns, tableColumns[j]), tableColumns, j + 1)

\* the inner loop of the unique-list construction, from column j on
RECURSIVE PushNewColumns(_, _, _)
PushNewColumns(columns, tableColumns, j) ==
    IF j > Len(tableColumns) THEN columns
    ELSE PushNewColumns(
            IF findMatchingColumn(columns, tableColumns[j]) = 0
            THEN Append(columns, tableColumns[j])
            ELSE columns,
            tableColumns, j + 1)

\* the outer loop of the unique-list construction, from table i on
RECURSIVE UniqueColumns(_, _, _)
UniqueColumns(columns, dataTables, i) ==
    IF i > Len(dataTables) THEN columns
    ELSE UniqueColumns(PushNewColumns(columns, dataTables[i].columns, 1),
                       dataTables, i + 1)

RECURSIVE SumRows(_, _)
SumRows(dataTables, i) ==
    IF i > Len(dataTables) THEN 0
    ELSE numRows(dataTables[i]) + SumRows(dataTables, i + 1)

totalRowsOf(dataTables) == SumRows(dataTables, 1)

\* new constructor(totalRows): a zero-filled typed array
NewArray(dataType, length) == [r \in 1..length |-> Zero(dataType)]

\* TypedArray.prototype.set(source, offset)
ArraySet(target, source, offset) ==
    [r \in 1..Len(target) |->
        IF r > offset /\ r <= offset + Len(source)
        THEN source[r - offset] ELSE target[r]]

\* a mutant of the copy of one column: the row offset is ignored
CopyColumnNoOffset(resultColumns, column, rowOffset) ==
    LET t == findMatchingColumn(resultColumns, column)
    IN  [resultColumns EXCEPT ![t].data = ArraySet(@, column.data, 0)]

\* the body of the inner copy loop
CopyColumn(resultColumns, column, rowOffset) ==
    LET t == findMatchingColumn(resultColumns, column)
    IN  [resultColumns EXCEPT ![t].data = ArraySet(@, column.data, rowOffset)]

RECURSIVE CopyTable(_, _, _, _)
CopyTable(resultColumns, tableColumns, j, rowOffset) ==
    IF j > Len(tableColumns) THEN resultColumns
    ELSE CopyTable(CopyColumn(resultColumns, tableColumns[j], rowOffset),
                   tableColumns, j + 1, rowOffset)

RECURSIVE CopyData(_, _, _, _)
CopyData(resultColumns, dataTables, i, rowOffset) ==
    IF i > Len(dataTables) THEN resultColumns
    ELSE CopyData(CopyTable(resultColumns, dataTables[i].columns, 1, rowOffset),
                  dataTables, i + 1, rowOffset + numRows(dataTables[i]))

\* a mutant of combine: a single table is rebuilt with fresh columns like
\* any other input, and its data is not copied
combineFresh(tables) ==
    LET columns == UniqueColumns(tables[1].columns, tables, 2)
        totalRows == totalRowsOf(tables)
    IN  DataTable([k \in 1..Len(columns) |->
                      Column(columns[k].name, columns[k].dataType,
                             NewArray(columns[k].dataType, totalRows))])

combine(dataTables) ==
    IF Len(dataTables) = 1 THEN dataTables[1]
    ELSE LET columns == UniqueColumns(dataTables[1].columns, dataTables, 2)
             totalRows == totalRowsOf(dataTables)
             resultColumns ==
                 [k \in 1..Len(columns) |->
                     Column(columns[k].name, columns[k].dataType,
                            NewArray(columns[k].dataType, totalRows))]
         IN  DataTable(CopyData(resultColumns, dataTables, 1, 0))

\* ------------------------------------------------------------------------
\* File names used by the conversions
\* ------------------------------------------------------------------------

In_a_ply == <<"a", ".", "p", "l", "y">>
In_e_ply == <<"e", ".", "p", "l", "y">>
In_x_ply == <<"x", ".", "p", "l", "y">>
In_c_ply == <<"c", ".", "p", "l", "y">>
In_b_ply == <<"b", ".", "p", "l", "y">>
In_n_ply == <<"n", ".", "p", "l", "y">>
In_g_mjs == <<"g", ".", "m", "j", "s">>
In_a_bin == <<"a", ".", "b", "i", "n">>
In_m_spz == <<"M", ".", "S", "P", "Z">>
In_k_ksplat == <<"k", ".", "k", "s", "p", "l", "a", "t">>
In_s_splat == <<"s", ".", "s", "p", "l", "a", "t">>
In_meta_json == <<"m", "e", "t", "a", ".", "j", "s", "o", "n">>
In_t_sog == <<"t", ".", "s", "o", "g">>
In_h_mjs == <<"H", ".", "M", "J", "S">>
In_p_cply == <<"p", ".", "c", "o", "m", "p", "r", "e", "s", "s", "e", "d", ".", "p", "l", "y">>
Out_o_ply == <<"o", ".", "p", "l", "y">>
Out_o_csv == <<"o", ".", "c", "s", "v">>
Out_q_sog == <<"q", ".", "s", "o", "g">>
Out_o_txt == <<"o", ".", "t", "x", "t">>
Out_o_cply == <<"o", ".", "c", "o", "m", "p", "r", "e", "s", "s", "e", "d", ".", "p", "l", "y">>
Out_lod == <<"l", "o", "d", "-", "m", "e", "t", "a", ".", "j", "s", "o", "n">>

Suffix_mjs == <<".", "m", "j", "s">>
Suffix_ksplat == <<".", "k", "s", "p", "l", "a", "t">>
Suffix_splat == <<".", "s", "p", "l", "a", "t">>
Suffix_sog == <<".", "s", "o", "g">>
Suffix_meta_json == <<"m", "e", "t", "a", ".", "j", "s", "o", "n">>
Suffix_ply == <<".", "p", "l", "y">>
Suffix_spz == <<".", "s", "p", "z">>
Suffix_csv == <<".", "c", "s", "v">>
Suffix_lod_meta_json == <<"l", "o", "d", "-", "m", "e", "t", "a", ".", "j", "s", "o", "n">>
Suffix_compressed_ply == <<".", "c", "o", "m", "p", "r", "e", "s", "s", "e", "d", ".", "p", "l", "y">>
Suffix_html == <<".", "h", "t", "m", "l">>

\* ------------------------------------------------------------------------
\* Format resolution
\* ------------------------------------------------------------------------

\* a mutant of the input resolution: the filename is not lower-cased
getInputReaderAsWritten(filename) ==
    IF endsWith(filename, Suffix_mjs) THEN "readMjs"
    ELSE IF endsWith(filename, Suffix_ksplat) THEN "readKsplat"
    ELSE IF endsWith(filename, Suffix_splat) THEN "readSplat"
    ELSE IF endsWith(filename, Suffix_sog)
            \/ endsWith(filename, Suffix_meta_json) THEN "readSog"
    ELSE IF endsWith(filename, Suffix_ply) THEN "readPly"
    ELSE IF endsWith(filename, Suffix_spz) THEN "readSpz"
    ELSE "none"

\* the reader readFile selects for a filename; "none" when no suffix matches
getInputReader(filename) ==
    LET lowerFilename == toLowerCase(filename)
    IN  IF endsWith(lowerFilename, Suffix_mjs) THEN "readMjs"
        ELSE IF endsWith(lowerFilename, Suffix_ksplat) THEN "readKsplat"
        ELSE IF endsWith(lowerFilename, Suffix_splat) THEN "readSplat"
        ELSE IF endsWith(lowerFilename, Suffix_sog)
                \/ endsWith(lowerFilename, Suffix_meta_json) THEN "readSog"
        ELSE IF endsWith(lowerFilename, Suffix_ply) THEN "readPly"
        ELSE IF endsWith(lowerFilename, Suffix_spz) THEN "readSpz"
        ELSE "none"

\* a mutant of getOutputFormat: the .ply test comes before the
\* .compressed.ply test, the lod-meta.json test after the meta.json test
getOutputFormatLooseFirst(filename) ==
    LET lowerFilename == toLowerCase(filename)
    IN  IF endsWith(lowerFilename, Suffix_csv) THEN "csv"
        ELSE IF endsWith(lowerFilename, Suffix_sog)
                \/ endsWith(lowerFilename, Suffix_meta_json) THEN "sog"
        ELSE IF endsWith(lowerFilename, Suffix_lod_meta_json) THEN "lod"
        ELSE IF endsWith(lowerFilename, Suffix_ply) THEN "ply"
        ELSE IF endsWith(lowerFilename, Suffix_compressed_ply) THEN "compressed-ply"
        ELSE IF endsWith(lowerFilename, Suffix_html) THEN "html"
        ELSE "unsupported"

\* "unsupported" stands for the thrown Error
getOutputFormat(filename) ==
    LET lowerFilename == toLowerCase(filename)
    IN  IF endsWith(lowerFilename, Suffix_csv) THEN "csv"
        ELSE IF endsWith(lowerFilename, Suffix_lod_meta_json) THEN "lod"
        ELSE IF endsWith(lowerFilename, Suffix_sog)
                \/ endsWith(lowerFilename, Suffix_meta_json) THEN "sog"
        ELSE IF endsWith(lowerFilename, Suffix_compressed_ply) THEN "compressed-ply"
        ELSE IF endsWith(lowerFilename, Suffix_ply) THEN "ply"
        ELSE IF endsWith(lowerFilename, Suffix_html) THEN "html"
        ELSE "unsupported"

\* the switch of writeFile: the writer invoked for an output format, "none"
\* when no case matches
writerOf(outputFormat) ==
    CASE outputFormat = "sog" -> "writeSog"
      [] outputFormat = "lod" -> "writeLod"
      [] outputFormat = "compressed-ply" -> "writeCompressedPly"
      [] outputFormat = "ply" -> "writePly"
      [] OTHER -> "none"

\* ------------------------------------------------------------------------
\* Schema validation
\* ------------------------------------------------------------------------

SplatColumns ==
    << "x", "y", "z",
       "rot_0", "rot_1", "rot_2", "rot_3",
       "scale_0", "scale_1", "scale_2",
       "f_dc_0", "f_dc_1", "f_dc_2",
       "opacity" >>

\* a mutant of isGSDataTable: the last name of the list is not tested
isGSDataTableShort(table) ==
    IF ~(\A k \in 1..(Len(SplatColumns) - 1) : hasColumn(table, SplatColumns[k]))
    THEN FALSE
    ELSE TRUE

isGSDataTable(dataTable) ==
    IF ~(\A k \in 1..Len(SplatColumns) : hasColumn(dataTable, SplatColumns[k]))
    THEN FALSE
    ELSE TRUE

\* a mutant of the validation: the schema test is dropped
isSupportedDataNoSchema(file) ==
    /\ ~(Len(file.elements) # 1 \/ file.elements[1].name # "vertex")
    /\ ~(numRows(file.elements[1].dataTable) = 0)

\* the two tests convertGsplat makes on the file readFile returned
isSupportedData(file) ==
    /\ ~(Len(file.elements) # 1 \/ file.elements[1].name # "vertex")
    /\ ~(numRows(file.elements[1].dataTable) = 0
         \/ ~isGSDataTable(file.elements[1].dataTable))

\* ------------------------------------------------------------------------
\* The input files on disk and what the external readers make of them
\* ------------------------------------------------------------------------

NamedTable(names, rows) ==
    DataTable([j \in 1..Len(names) |->
                  Column(names[j], "float32", [r \in 1..rows |-> j + r])])

SplatTable(rows) == NamedTable(SplatColumns, rows)

Element(name, dataTable) == [name |-> name, dataTable |-> dataTable]

FileRecord(elements) == [comments |-> <<>>, elements |-> elements]

NoFile == FileRecord(<<>>)

NoTable == DataTable(<<>>)

\* what is stored under an input filename: "missing" (open fails),
\* "corrupt" (the reader throws) or "ok" with the file record the reader
\* parses
Stored(status, parsed) == [status |-> status, parsed |-> parsed]

InputContent(name) ==
    CASE name = In_a_ply ->
            Stored("ok", FileRecord(<<Element("vertex", SplatTable(1))>>))
      [] name = In_e_ply ->
            Stored("ok", FileRecord(<<Element("vertex", SplatTable(0))>>))
      [] name = In_x_ply ->
            Stored("ok", FileRecord(<<Element("vertex",
                                              NamedTable(<<"x", "y", "z">>, 1))>>))
      [] name = In_c_ply ->
            Stored("ok", FileRecord(
                <<Element("chunk", NamedTable(<<"min_x", "max_x">>, 1)),
                  Element("vertex", NamedTable(<<"packed_position">>, 1))>>))
      [] name = In_b_ply -> Stored("corrupt", FileRecord(<<>>))
      [] name = In_n_ply -> Stored("missing", FileRecord(<<>>))
      [] name = In_g_mjs ->
            Stored("ok", FileRecord(<<Element("vertex",
                NamedTable(SplatColumns \o <<"f_rest_0">>, 1))>>))
      [] name = In_a_bin ->
            Stored("ok", FileRecord(<<Element("vertex", SplatTable(1))>>))
      [] name = In_m_spz ->
            Stored("ok", FileRecord(<<Element("mesh", SplatTable(1))>>))
      [] name = In_k_ksplat ->
            Stored("ok", FileRecord(<<Element("vertex", SplatTable(0))>>))
      [] name = In_s_splat -> Stored("corrupt", FileRecord(<<>>))
      [] name = In_meta_json -> Stored("ok", FileRecord(<<>>))
      [] name = In_t_sog ->
            Stored("ok", FileRecord(<<Element("vertex", SplatTable(1))>>))
      [] name = In_h_mjs ->
            Stored("ok", FileRecord(<<Element("vertex", SplatTable(1))>>))
      [] name = In_p_cply ->
            Stored("ok", FileRecord(<<Element("vertex", SplatTable(1))>>))
      [] OTHER -> Stored("missing", FileRecord(<<>>))

isCompressedPly(ply) ==
    /\ \E k \in 1..Len(ply.elements) : ply.elements[k].name = "chunk"
    /\ \E k \in 1..Len(ply.elements) : ply.elements[k].name = "vertex"

decompressPly(ply) == SplatTable(numRows(ply.elements[2].dataTable))

\* the file data readFile assigns once the selected reader has returned
fileDataOf(reader, parsed) ==
    IF reader = "readPly" /\ isCompressedPly(parsed)
    THEN FileRecord(<<Element("vertex", decompressPly(parsed))>>)
    ELSE parsed

\* processDataTable is external: it returns a table of the same columns
\* with some of the rows
KeepRows(dataTable, k) ==
    DataTable([j \in 1..Len(dataTable.columns) |->
        [dataTable.columns[j] EXCEPT !.data = SubSeq(@, 1, k)]])

processDataTable(dataTable) ==
    {KeepRows(dataTable, k) : k \in 0..numRows(dataTable)}

\* ------------------------------------------------------------------------
\* State
\* ------------------------------------------------------------------------

VARIABLES
    pc,             \* where each convertGsplat invocation stands
    filename,       \* its input filename
    outputFilename, \* its output filename
    file,           \* the file data readFile produced
    dataTable,      \* the table being processed, then written
    inputFile,      \* the input handle: "none", "open", "closed", "closeFailed"
    outputFile,     \* the temporary output handle, likewise
    tmpPathname,    \* the temporary pathname writeFile constructed
    pending,        \* the exception in flight inside writeFile's try block
    result,         \* "none", "ok", "fail"; "escaped" for an uncaught exception
    error,          \* the stage whose failure the result carries
    options,        \* the options convertGsplat hands to writeFile
    ops,            \* history: the operations the invocation has issued
    fs,             \* the directory: pathname -> content or Absent
    closeAttempts,  \* history: calls of outputFile.close()
    pre,            \* history: the directory when the invocation started
    lastRename,     \* history: per target, the invocation that renamed last
    started,        \* history: the number of invocations started
    dataTables,     \* the argument of a stand-alone combine call
    combined,       \* its result
    argFilename,    \* the argument of a stand-alone getOutputFormat call
    format,         \* its result, in a sequence once it is there
    argTable,       \* the argument of a stand-alone isGSDataTable call
    isGS            \* its result, in a sequence once it is there

vars == << pc, filename, outputFilename, file, dataTable, inputFile, outputFile,
           tmpPathname, pending, result, error, options, ops, fs,
           closeAttempts, pre, lastRename, started, dataTables, combined,
           argFilename, format, argTable, isGS >>

callVars == << pc, filename, outputFilename, file, dataTable, inputFile,
               outputFile, tmpPathname, pending, result, error, options, ops,
               fs, closeAttempts, pre, lastRename, started >>

pureVars == << argFilename, format, argTable, isGS >>

Calls == 1..NumCalls

\* the content of a pathname that does not exist
Absent == << [writer |-> "absent", table |-> [columns |-> << >>]] >>

\* what a target holds before any conversion wrote it
OldContent == << [writer |-> "old", table |-> [columns |-> << >>]] >>

NoPath == << >>

InputNames ==
    { In_a_ply, In_e_ply, In_x_ply, In_b_ply, In_n_ply, In_g_mjs, In_a_bin,
      In_m_spz, In_meta_json }

OutputNames == { Out_o_ply, Out_o_csv, Out_o_txt }

\* `.${basename(filename)}.${process.pid}.${Date.now()}.${random}.tmp`
\* joined to dirname(filename); nonce stands for pid, time and random bytes
TmpPath(target, nonce) == << "tmp", target, nonce >>

TmpPaths == { TmpPath(t, n) : t \in OutputNames, n \in 1..NumNonces }

Paths == OutputNames \cup TmpPaths

\* a chunk of what a writer makes of a table
Chunk(writer, table) == [writer |-> writer, table |-> table]

\* ------------------------------------------------------------------------
\* Pieces of convertGsplat and writeFile
\* ------------------------------------------------------------------------

\* a mutant of the try block: it ends before the call of writeFile
catchesBeforeWrite(stage) ==
    stage \notin {"resolve", "openTmp", "codec", "sync", "rename"}

\* the try block of convertGsplat spans every stage
catches(stage) == TRUE

\* a mutant of the open of the staging file: the target itself is opened
stagingPathTarget(target, tmp) == target

\* the pathname writeFile opens and hands to the writer
stagingPath(target, tmp) == tmp

\* a mutant of the open flags: only a file that has content is refused
openFailsNonEmpty(f, path) == f[path] # Absent /\ f[path] # << >>

\* a mutant of the open flags: 'w', which truncates an existing file
openFailsNever(f, path) == FALSE

\* open(path, 'wx') fails when the path exists
openFails(f, path) == f[path] # Absent

\* a mutant of what follows the finally block: the rename is always done
afterCloseAlwaysRename(pend) == "rename"

\* after the finally block: the pending exception is rethrown, else rename
afterClose(pend) == IF pend = "none" THEN "rename" ELSE "throw"

\* a mutant of the close: its error is propagated
closeErrorPropagated(closeFailed, pend) ==
    IF closeFailed THEN "close" ELSE pend

\* outputFile.close().catch(() => {}): the exception in flight after it
afterCloseError(closeFailed, pend) == pend

\* a mutant of the rename: an existing target is replaced only when the
\* overwrite option is set
replaceIfOverwrite(opts, targetExists) == opts.overwrite \/ ~targetExists

\* whether rename(tmpPathname, filename) may replace the target: it always
\* does, no option of writeFile is consulted
replaceAllowed(opts, targetExists) == TRUE

\* a mutant of rename: the source is copied and kept
renameCopy(f, from, to) == [f EXCEPT ![to] = f[from]]

\* rename(from, to): replaces `to`, removes `from`
renameFile(f, from, to) == [f EXCEPT ![to] = f[from], ![from] = Absent]

\* the options object before convertGsplat has built it
NoOptions ==
    [overwrite |-> FALSE, help |-> FALSE, version |-> FALSE, cpu |-> FALSE,
     iterations |-> 0]

\* const options: Options = { overwrite: true, ... }
ConvertOptions ==
    [overwrite |-> TRUE, help |-> FALSE, version |-> FALSE, cpu |-> TRUE,
     iterations |-> 10]

\* the reader calls of readFile for a filename whose handle is open: the
\* selected reader and, for a ply file that parsed as compressed ply, the
\* decompression
readerOps(fname) ==
    << getInputReader(fname) >> \o
        (IF /\ getInputReader(fname) = "readPly"
            /\ InputContent(fname).status = "ok"
            /\ isCompressedPly(InputContent(fname).parsed)
         THEN << "decompressPly" >> ELSE << >>)

\* the writer call of the switch of writeFile, if a case matches
switchOps(outputFormat) ==
    IF writerOf(outputFormat) = "none" THEN << >>
    ELSE << writerOf(outputFormat) >>

\* the catch block of convertGsplat (or the escape of the exception)
Throw(c, stage) ==
    /\ pc' = [pc EXCEPT ![c] = "returned"]
    /\ result' = [result EXCEPT ![c] = IF catches(stage) THEN "fail" ELSE "escaped"]
    /\ error' = [error EXCEPT ![c] = stage]

\* ------------------------------------------------------------------------
\* Initial states
\* ------------------------------------------------------------------------

\* no stand-alone call of getOutputFormat or isGSDataTable is under way
InitPure ==
    /\ argFilename = NoPath
    /\ format = << >>
    /\ argTable = NoTable
    /\ isGS = << >>

InitCalls ==
    /\ pc = [c \in Calls |-> "idle"]
    /\ filename = [c \in Calls |-> NoPath]
    /\ outputFilename = [c \in Calls |-> NoPath]
    /\ file = [c \in Calls |-> NoFile]
    /\ dataTable = [c \in Calls |-> NoTable]
    /\ inputFile = [c \in Calls |-> "none"]
    /\ outputFile = [c \in Calls |-> "none"]
    /\ tmpPathname = [c \in Calls |-> NoPath]
    /\ pending = [c \in Calls |-> "none"]
    /\ result = [c \in Calls |-> "none"]
    /\ error = [c \in Calls |-> "none"]
    /\ options = [c \in Calls |-> NoOptions]
    /\ ops = [c \in Calls |-> << >>]
    /\ closeAttempts = [c \in Calls |-> 0]
    /\ lastRename = [t \in OutputNames |-> 0]
    /\ started = 0

\* every target of a supported format is absent or holds old content; no
\* other file exists
Init ==
    /\ InitCalls
    /\ fs \in {f \in [Paths -> {Absent, OldContent}] :
                  \A p \in Paths :
                      (p \in TmpPaths \/ getOutputFormat(p) = "unsupported")
                          => f[p] = Absent}
    /\ pre = [c \in Calls |-> [p \in Paths |-> Absent]]
    /\ dataTables = << >>
    /\ combined = NoTable
    /\ InitPure

\* ------------------------------------------------------------------------
\* convertGsplat: readFile
\* ------------------------------------------------------------------------

\* convertGsplat(filename, outputFilename) up to the first await of
\* readFile: a new invocation, with fresh locals
Start(c, inputs, outputs, snapshot) ==
    /\ pc[c] \in {"idle", "returned"}
    /\ \E fin \in inputs, fout \in outputs :
        /\ filename' = [filename EXCEPT ![c] = fin]
        /\ outputFilename' = [outputFilename EXCEPT ![c] = fout]
        /\ pc' = [pc EXCEPT ![c] =
                    IF getInputReader(fin) = "readMjs" THEN "readMjs"
                    ELSE "openInput"]
    /\ file' = [file EXCEPT ![c] = NoFile]
    /\ dataTable' = [dataTable EXCEPT ![c] = NoTable]
    /\ inputFile' = [inputFile EXCEPT ![c] = "none"]
    /\ outputFile' = [outputFile EXCEPT ![c] = "none"]
    /\ tmpPathname' = [tmpPathname EXCEPT ![c] = NoPath]
    /\ pending' = [pending EXCEPT ![c] = "none"]
    /\ result' = [result EXCEPT ![c] = "none"]
    /\ error' = [error EXCEPT ![c] = "none"]
    /\ options' = [options EXCEPT ![c] = NoOptions]
    /\ ops' = [ops EXCEPT ![c] = << >>]
    /\ closeAttempts' = [closeAttempts EXCEPT ![c] = 0]
    /\ pre' = IF snapshot THEN [pre EXCEPT ![c] = fs] ELSE pre
    /\ started' = started + 1
    /\ UNCHANGED << fs, lastRename, dataTables, combined, pureVars >>

\* fileData = await readMjs(filename, params)
ReadMjs(c) ==
    /\ pc[c] = "readMjs"
    /\ ops' = [ops EXCEPT ![c] = Append(@, "readMjs")]
    /\ IF InputContent(filename[c]).status = "ok"
       THEN /\ file' = [file EXCEPT ![c] = InputContent(filename[c]).parsed]
            /\ pc' = [pc EXCEPT ![c] = "validate"]
            /\ UNCHANGED << result, error >>
       ELSE /\ Throw(c, "reader")
            /\ UNCHANGED file
    /\ UNCHANGED << filename, outputFilename, dataTable, inputFile, outputFile,
                    tmpPathname, pending, fs, closeAttempts, pre, lastRename,
                    started, dataTables, combined, options, pureVars >>

\* inputFile = await open(filename, 'r'), then the suffix tests
OpenInput(c) ==
    /\ pc[c] = "openInput"
    /\ ops' = [ops EXCEPT ![c] = Append(@, "open")]
    /\ IF InputContent(filename[c]).status = "missing"
       THEN /\ Throw(c, "openInput")
            /\ UNCHANGED inputFile
       ELSE /\ inputFile' = [inputFile EXCEPT ![c] = "open"]
            /\ pc' = [pc EXCEPT ![c] =
                        IF getInputReader(filename[c]) = "none"
                        THEN "closeUnsupported" ELSE "reader"]
            /\ UNCHANGED << result, error >>
    /\ UNCHANGED << filename, outputFilename, file, dataTable, outputFile,
                    tmpPathname, pending, fs, closeAttempts, pre, lastRename,
                    started, dataTables, combined, options, pureVars >>

\* fileData = await read...(inputFile); an exception of the reader leaves
\* readFile at once
Reader(c) ==
    /\ pc[c] = "reader"
    /\ ops' = [ops EXCEPT ![c] = @ \o readerOps(filename[c])]
    /\ IF InputContent(filename[c]).status = "corrupt"
       THEN /\ Throw(c, "reader")
            /\ UNCHANGED file
       ELSE /\ file' = [file EXCEPT ![c] =
                          fileDataOf(getInputReader(filename[c]),
                                     InputContent(filename[c]).parsed)]
            /\ pc' = [pc EXCEPT ![c] = "closeInput"]
            /\ UNCHANGED << result, error >>
    /\ UNCHANGED << filename, outputFilename, dataTable, inputFile, outputFile,
                    tmpPathname, pending, fs, closeAttempts, pre, lastRename,
                    started, dataTables, combined, options, pureVars >>

\* the else branch: await inputFile.close(); throw new Error(Unsupported...)
CloseUnsupported(c) ==
    /\ pc[c] = "closeUnsupported"
    /\ ops' = [ops EXCEPT ![c] = Append(@, "closeInput")]
    /\ \E closed \in BOOLEAN :
        /\ inputFile' = [inputFile EXCEPT ![c] =
                            IF closed THEN "closed" ELSE "closeFailed"]
        /\ Throw(c, IF closed THEN "unsupportedInput" ELSE "closeInput")
    /\ UNCHANGED << filename, outputFilename, file, dataTable, outputFile,
                    tmpPathname, pending, fs, closeAttempts, pre, lastRename,
                    started, dataTables, combined, options, pureVars >>

\* await inputFile.close(); return fileData
CloseInput(c) ==
    /\ pc[c] = "closeInput"
    /\ ops' = [ops EXCEPT ![c] = Append(@, "closeInput")]
    /\ \E closed \in BOOLEAN :
        IF closed
        THEN /\ inputFile' = [inputFile EXCEPT ![c] = "closed"]
             /\ pc' = [pc EXCEPT ![c] = "validate"]
             /\ UNCHANGED << result, error >>
        ELSE /\ inputFile' = [inputFile EXCEPT ![c] = "closeFailed"]
             /\ Throw(c, "closeInput")
    /\ UNCHANGED << filename, outputFilename, file, dataTable, outputFile,
                    tmpPathname, pending, fs, closeAttempts, pre, lastRename,
                    started, dataTables, combined, options, pureVars >>

\* ------------------------------------------------------------------------
\* convertGsplat: validation, processDataTable, combine
\* ------------------------------------------------------------------------

\* the two "Unsupported data in file" tests
Validate(c) ==
    /\ pc[c] = "validate"
    /\ ops' = [ops EXCEPT ![c] = Append(@, "validate")]
    /\ IF isSupportedData(file[c])
       THEN /\ pc' = [pc EXCEPT ![c] = "process1"]
            /\ UNCHANGED << result, error >>
       ELSE Throw(c, "validate")
    /\ UNCHANGED << filename, outputFilename, file, dataTable, inputFile,
                    outputFile, tmpPathname, pending, fs, closeAttempts, pre,
                    lastRename, started, dataTables, combined, options, pureVars >>

\* element.dataTable = processDataTable(dataTable, [])
Process1(c) ==
    /\ pc[c] = "process1"
    /\ ops' = [ops EXCEPT ![c] = Append(@, "processDataTable")]
    /\ \/ \E t \in processDataTable(file[c].elements[1].dataTable) :
            /\ file' = [file EXCEPT ![c].elements[1].dataTable = t]
            /\ pc' = [pc EXCEPT ![c] = "combine"]
            /\ UNCHANGED << result, error >>
       \/ /\ Throw(c, "process1")
          /\ UNCHANGED file
    /\ UNCHANGED << filename, outputFilename, dataTable, inputFile, outputFile,
                    tmpPathname, pending, fs, closeAttempts, pre, lastRename,
                    started, dataTables, combined, options, pureVars >>

\* a mutant of the combining step: the second processDataTable and the
\* "No splats to write" test are skipped
CombineThenWrite(c) ==
    /\ pc[c] = "combine"
    /\ ops' = [ops EXCEPT ![c] = Append(@, "combine")]
    /\ dataTable' = [dataTable EXCEPT ![c] =
                        combine(<< file[c].elements[1].dataTable >>)]
    /\ pc' = [pc EXCEPT ![c] = "writeFile"]
    /\ UNCHANGED << filename, outputFilename, file, inputFile, outputFile,
                    tmpPathname, pending, result, error, fs, closeAttempts,
                    pre, lastRename, started, dataTables, combined, options,
                    pureVars >>

\* combine([inputFile].map(file => file.elements[0].dataTable))
Combine(c) ==
    /\ pc[c] = "combine"
    /\ ops' = [ops EXCEPT ![c] = Append(@, "combine")]
    /\ dataTable' = [dataTable EXCEPT ![c] =
                        combine(<< file[c].elements[1].dataTable >>)]
    /\ pc' = [pc EXCEPT ![c] = "process2"]
    /\ UNCHANGED << filename, outputFilename, file, inputFile, outputFile,
                    tmpPathname, pending, result, error, fs, closeAttempts,
                    pre, lastRename, started, dataTables, combined, options, pureVars >>

\* dataTable = processDataTable(combined, []), then the "No splats to
\* write" test
Process2(c) ==
    /\ pc[c] = "process2"
    /\ ops' = [ops EXCEPT ![c] = Append(@, "processDataTable")]
    /\ \/ \E t \in processDataTable(dataTable[c]) :
            /\ dataTable' = [dataTable EXCEPT ![c] = t]
            /\ IF numRows(t) = 0
               THEN /\ Throw(c, "empty")
                    /\ UNCHANGED options
               ELSE /\ pc' = [pc EXCEPT ![c] = "writeFile"]
                    /\ options' = [options EXCEPT ![c] = ConvertOptions]
                    /\ UNCHANGED << result, error >>
       \/ /\ Throw(c, "process2")
          /\ UNCHANGED << dataTable, options >>
    /\ UNCHANGED << filename, outputFilename, file, inputFile, outputFile,
                    tmpPathname, pending, fs, closeAttempts, pre, lastRename,
                    started, dataTables, combined, pureVars >>

\* ------------------------------------------------------------------------
\* writeFile
\* ------------------------------------------------------------------------

\* getOutputFormat(filename), then the temporary pathname
WriteFileEnter(c) ==
    /\ pc[c] = "writeFile"
    /\ ops' = [ops EXCEPT ![c] = Append(@, "getOutputFormat")]
    /\ IF getOutputFormat(outputFilename[c]) = "unsupported"
       THEN /\ Throw(c, "resolve")
            /\ UNCHANGED tmpPathname
       ELSE /\ \E nonce \in 1..NumNonces :
                tmpPathname' = [tmpPathname EXCEPT ![c] =
                                   TmpPath(outputFilename[c], nonce)]
            /\ pc' = [pc EXCEPT ![c] = "openTmp"]
            /\ UNCHANGED << result, error >>
    /\ UNCHANGED << filename, outputFilename, file, dataTable, inputFile,
                    outputFile, pending, fs, closeAttempts, pre, lastRename,
                    started, dataTables, combined, options, pureVars >>

\* outputFile = await open(tmpPathname, 'wx'), then the switch up to the
\* first await
OpenTmp(c) ==
    /\ pc[c] = "openTmp"
    /\ LET path == stagingPath(outputFilename[c], tmpPathname[c])
       IN  \E ioError \in BOOLEAN :
            IF ioError \/ openFails(fs, path)
            THEN /\ Throw(c, "openTmp")
                 /\ ops' = [ops EXCEPT ![c] = Append(@, "openTmp")]
                 /\ UNCHANGED << fs, outputFile >>
            ELSE /\ fs' = [fs EXCEPT ![path] = << >>]
                 /\ ops' = [ops EXCEPT ![c] = Append(@, "openTmp") \o
                        switchOps(getOutputFormat(outputFilename[c]))]
                 /\ outputFile' = [outputFile EXCEPT ![c] = "open"]
                 /\ pc' = [pc EXCEPT ![c] =
                        IF writerOf(getOutputFormat(outputFilename[c])) = "none"
                        THEN "sync" ELSE "write"]
                 /\ UNCHANGED << result, error >>
    /\ UNCHANGED << filename, outputFilename, file, dataTable, inputFile,
                    tmpPathname, pending, closeAttempts, pre, lastRename,
                    started, dataTables, combined, options, pureVars >>

\* the writer appends one chunk to the open file
WriteChunk(c) ==
    /\ pc[c] = "write"
    /\ UNCHANGED ops
    /\ LET path == stagingPath(outputFilename[c], tmpPathname[c])
       IN  /\ fs[path] # Absent
           /\ Len(fs[path]) < OutLen
           /\ fs' = [fs EXCEPT ![path] =
                        Append(@, Chunk(writerOf(getOutputFormat(
                                            outputFilename[c])), dataTable[c]))]
    /\ UNCHANGED << pc, filename, outputFilename, file, dataTable, inputFile,
                    outputFile, tmpPathname, pending, result, error,
                    closeAttempts, pre, lastRename, started, dataTables,
                    combined, options, pureVars >>

\* the writer returns
WriteDone(c) ==
    /\ pc[c] = "write"
    /\ UNCHANGED ops
    /\ LET path == stagingPath(outputFilename[c], tmpPathname[c])
       IN  /\ fs[path] # Absent
           /\ Len(fs[path]) >= OutLen
    /\ pc' = [pc EXCEPT ![c] = "sync"]
    /\ UNCHANGED << filename, outputFilename, file, dataTable, inputFile,
                    outputFile, tmpPathname, pending, result, error, fs,
                    closeAttempts, pre, lastRename, started, dataTables,
                    combined, options, pureVars >>

\* a mutant of the failure of the writer: the sync is still issued
WriteFailThenSync(c) ==
    /\ pc[c] = "write"
    /\ pending' = [pending EXCEPT ![c] = "codec"]
    /\ pc' = [pc EXCEPT ![c] = "sync"]
    /\ UNCHANGED << filename, outputFilename, file, dataTable, inputFile,
                    outputFile, tmpPathname, result, error, fs, closeAttempts,
                    pre, lastRename, started, dataTables, combined, options,
                    ops, pureVars >>

\* the writer throws: control passes to the finally block
WriteFail(c) ==
    /\ pc[c] = "write"
    /\ UNCHANGED ops
    /\ pending' = [pending EXCEPT ![c] = "codec"]
    /\ pc' = [pc EXCEPT ![c] = "close"]
    /\ UNCHANGED << filename, outputFilename, file, dataTable, inputFile,
                    outputFile, tmpPathname, result, error, fs, closeAttempts,
                    pre, lastRename, started, dataTables, combined, options, pureVars >>

\* await outputFile.sync()
Sync(c) ==
    /\ pc[c] = "sync"
    /\ ops' = [ops EXCEPT ![c] = Append(@, "sync")]
    /\ \E synced \in BOOLEAN :
        pending' = [pending EXCEPT ![c] = IF synced THEN "none" ELSE "sync"]
    /\ pc' = [pc EXCEPT ![c] = "close"]
    /\ UNCHANGED << filename, outputFilename, file, dataTable, inputFile,
                    outputFile, tmpPathname, result, error, fs, closeAttempts,
                    pre, lastRename, started, dataTables, combined, options, pureVars >>

\* finally: await outputFile.close().catch(() => {}), then the rethrow of a
\* pending exception
CloseTmp(c) ==
    /\ pc[c] = "close"
    /\ ops' = [ops EXCEPT ![c] = Append(@, "closeTmp")]
    /\ closeAttempts' = [closeAttempts EXCEPT ![c] = @ + 1]
    /\ \E closed \in BOOLEAN :
        /\ outputFile' = [outputFile EXCEPT ![c] =
                            IF closed THEN "closed" ELSE "closeFailed"]
        /\ LET pend == afterCloseError(~closed, pending[c])
           IN  /\ pending' = [pending EXCEPT ![c] = pend]
               /\ IF afterClose(pend) = "rename"
                  THEN /\ pc' = [pc EXCEPT ![c] = "rename"]
                       /\ UNCHANGED << result, error >>
                  ELSE Throw(c, pend)
    /\ UNCHANGED << filename, outputFilename, file, dataTable, inputFile,
                    tmpPathname, fs, pre, lastRename, started, dataTables,
                    combined, options, pureVars >>

\* await rename(tmpPathname, filename), then return { isOk: true }; opts are
\* the options writeFile was called with
RenameWith(c, opts) ==
    /\ pc[c] = "rename"
    /\ ops' = [ops EXCEPT ![c] = Append(@, "rename")]
    /\ \E renamed \in BOOLEAN :
        IF /\ renamed
           /\ fs[tmpPathname[c]] # Absent
           /\ replaceAllowed(opts, fs[outputFilename[c]] # Absent)
        THEN /\ fs' = renameFile(fs, tmpPathname[c], outputFilename[c])
             /\ lastRename' = [lastRename EXCEPT ![outputFilename[c]] = c]
             /\ pc' = [pc EXCEPT ![c] = "returned"]
             /\ result' = [result EXCEPT ![c] = "ok"]
             /\ UNCHANGED error
        ELSE /\ Throw(c, "rename")
             /\ UNCHANGED << fs, lastRename >>
    /\ UNCHANGED << filename, outputFilename, file, dataTable, inputFile,
                    outputFile, tmpPathname, pending, closeAttempts, pre,
                    started, dataTables, combined, options, pureVars >>

Rename(c) == RenameWith(c, options[c])

\* ------------------------------------------------------------------------
\* Specifications
\* ------------------------------------------------------------------------

Step(c) ==
    \/ ReadMjs(c) \/ OpenInput(c) \/ Reader(c) \/ CloseUnsupported(c)
    \/ CloseInput(c) \/ Validate(c) \/ Process1(c) \/ Combine(c)
    \/ Process2(c) \/ WriteFileEnter(c) \/ OpenTmp(c) \/ WriteChunk(c)
    \/ WriteDone(c) \/ WriteFail(c) \/ Sync(c) \/ CloseTmp(c) \/ Rename(c)

\* the inputs and targets of the concurrent conversions
ConcurrentInputs == { In_a_ply, In_g_mjs, In_a_bin }

ConcurrentOutputs == { Out_o_ply, Out_o_csv }

\* conversions running concurrently, one per caller, interleaved at every
\* step
Next ==
    \E c \in Calls :
        \/ pc[c] = "idle" /\ Start(c, ConcurrentInputs, ConcurrentOutputs, FALSE)
        \/ Step(c)

Spec == Init /\ [][Next]_vars

\* the caller of the sequential conversions
Callers == {c \in Calls : \A d \in Calls : c <= d}

\* one caller running up to NumCalls conversions one after the other
NextSeq ==
    \E c \in Callers :
        \/ started < NumCalls /\ Start(c, InputNames, OutputNames, TRUE)
        \/ Step(c)

SpecSeq == Init /\ [][NextSeq]_vars

\* the inputs of the conversions that read every kind of input
ReadInputs ==
    { In_a_ply, In_c_ply, In_p_cply, In_b_ply, In_n_ply, In_g_mjs, In_h_mjs,
      In_a_bin, In_m_spz, In_k_ksplat, In_s_splat, In_t_sog, In_meta_json }

ReadOutputs == { Out_o_ply }

\* one caller running up to NumCalls conversions of these inputs
NextRead ==
    \E c \in Callers :
        \/ started < NumCalls /\ Start(c, ReadInputs, ReadOutputs, TRUE)
        \/ Step(c)

SpecRead == Init /\ [][NextRead]_vars

\* ------------------------------------------------------------------------
\* writeFile on its own: target, table and options are drawn
\* ------------------------------------------------------------------------

WriteTables == { SplatTable(1), NamedTable(<< "x" >>, MaxRows) }

\* writeFile(filename, dataTable, options), called with fresh locals
CallWriteFile(c) ==
    /\ pc[c] \in {"idle", "returned"}
    /\ started < NumCalls
    /\ \E fout \in OutputNames, table \in WriteTables, overwrite \in BOOLEAN :
        /\ outputFilename' = [outputFilename EXCEPT ![c] = fout]
        /\ dataTable' = [dataTable EXCEPT ![c] = table]
        /\ options' = [options EXCEPT ![c] =
                          [ConvertOptions EXCEPT !.overwrite = overwrite]]
    /\ pc' = [pc EXCEPT ![c] = "writeFile"]
    /\ filename' = [filename EXCEPT ![c] = NoPath]
    /\ file' = [file EXCEPT ![c] = NoFile]
    /\ inputFile' = [inputFile EXCEPT ![c] = "none"]
    /\ outputFile' = [outputFile EXCEPT ![c] = "none"]
    /\ tmpPathname' = [tmpPathname EXCEPT ![c] = NoPath]
    /\ pending' = [pending EXCEPT ![c] = "none"]
    /\ result' = [result EXCEPT ![c] = "none"]
    /\ error' = [error EXCEPT ![c] = "none"]
    /\ ops' = [ops EXCEPT ![c] = << >>]
    /\ closeAttempts' = [closeAttempts EXCEPT ![c] = 0]
    /\ pre' = [pre EXCEPT ![c] = fs]
    /\ started' = started + 1
    /\ UNCHANGED << fs, lastRename, dataTables, combined, pureVars >>

\* a step of writeFile
WriteStep(c) ==
    \/ WriteFileEnter(c) \/ OpenTmp(c) \/ WriteChunk(c) \/ WriteDone(c)
    \/ WriteFail(c) \/ Sync(c) \/ CloseTmp(c) \/ Rename(c)

\* one caller running up to NumCalls calls of writeFile one after the other
NextWrite ==
    \E c \in Callers :
        \/ CallWriteFile(c)
        \/ WriteStep(c)

SpecWrite == Init /\ [][NextWrite]_vars

\* ------------------------------------------------------------------------
\* combine on its own: the argument is drawn from the bounded tables
\* ------------------------------------------------------------------------

\* the column identities (name, data type) of the tables
Identities ==
    { << "x", "float32" >>, << "x", "uint8" >>, << "opacity", "float32" >> }

\* the column lists of a table: one to MaxCols columns, no identity twice
Schemas ==
    {sch \in UNION {[1..n -> Identities] : n \in 1..MaxCols} :
        \A j, k \in 1..Len(sch) : j # k => sch[j] # sch[k]}

\* the value of row r of column j of table i: all distinct, none zero
Cell(i, j, r) == 1 + ((i - 1) * MaxCols + (j - 1)) * MaxRows + (r - 1)

TableOf(i, sch, rows) ==
    DataTable([j \in 1..Len(sch) |->
                  Column(sch[j][1], sch[j][2], [r \in 1..rows |-> Cell(i, j, r)])])

InitCombine ==
    /\ InitCalls
    /\ fs = [p \in Paths |-> Absent]
    /\ pre = [c \in Calls |-> [p \in Paths |-> Absent]]
    /\ \E n \in 1..MaxTables :
        \E schs \in [1..n -> Schemas], rows \in [1..n -> 0..MaxRows] :
            dataTables = [i \in 1..n |-> TableOf(i, schs[i], rows[i])]
    /\ combined = NoTable
    /\ InitPure

\* result = combine(dataTables)
DoCombine ==
    /\ combined = NoTable
    /\ combined' = combine(dataTables)
    /\ UNCHANGED << callVars, dataTables, pureVars >>

NextCombine == DoCombine

SpecCombine == InitCombine /\ [][NextCombine]_vars

\* ------------------------------------------------------------------------
\* getOutputFormat on its own: the argument is drawn from filenames made of
\* a stem and an ending, in lower, upper and mixed case
\* ------------------------------------------------------------------------

UpperChar(ch) ==
    CASE ch = "a" -> "A" [] ch = "b" -> "B" [] ch = "c" -> "C"
      [] ch = "d" -> "D" [] ch = "e" -> "E" [] ch = "f" -> "F"
      [] ch = "g" -> "G" [] ch = "h" -> "H" [] ch = "i" -> "I"
      [] ch = "j" -> "J" [] ch = "k" -> "K" [] ch = "l" -> "L"
      [] ch = "m" -> "M" [] ch = "n" -> "N" [] ch = "o" -> "O"
      [] ch = "p" -> "P" [] ch = "q" -> "Q" [] ch = "r" -> "R"
      [] ch = "s" -> "S" [] ch = "t" -> "T" [] ch = "u" -> "U"
      [] ch = "v" -> "V" [] ch = "w" -> "W" [] ch = "x" -> "X"
      [] ch = "y" -> "Y" [] ch = "z" -> "Z"
      [] OTHER -> ch

\* s in one of the letter cases: as it is, all capitals, or every second
\* letter a capital
InCase(s, case) ==
    [i \in 1..Len(s) |->
        IF case = "upper" \/ (case = "mixed" /\ i % 2 = 0)
        THEN UpperChar(s[i]) ELSE s[i]]

LetterCases == { "lower", "upper", "mixed" }

FilenameStems ==
    { << >>, << "a" >>, << "l", "o", "d", "-" >>,
      << "a", ".", "c", "s", "v" >>, << "b", ".", "p", "l", "y" >> }

FilenameEndings ==
    { Suffix_csv, Suffix_lod_meta_json, Suffix_sog, Suffix_meta_json,
      Suffix_compressed_ply, Suffix_ply, Suffix_html, Suffix_spz, Suffix_mjs,
      << ".", "t", "x", "t" >>, << ".", "j", "s", "o", "n" >>,
      << "p", "l", "y" >>, << ".", "p", "l", "y", "." >>,
      << ".", "h", "t", "m" >> }

Filenames ==
    { stem \o InCase(ending, case) :
        stem \in FilenameStems, ending \in FilenameEndings,
        case \in LetterCases }

InitFormat ==
    /\ InitCalls
    /\ fs = [p \in Paths |-> Absent]
    /\ pre = [c \in Calls |-> [p \in Paths |-> Absent]]
    /\ dataTables = << >>
    /\ combined = NoTable
    /\ argFilename \in Filenames
    /\ format = << >>
    /\ argTable = NoTable
    /\ isGS = << >>

\* format = getOutputFormat(argFilename)
DoGetOutputFormat ==
    /\ format = << >>
    /\ format' = << getOutputFormat(argFilename) >>
    /\ UNCHANGED << callVars, dataTables, combined, argFilename, argTable, isGS >>

NextFormat == DoGetOutputFormat

SpecFormat == InitFormat /\ [][NextFormat]_vars

\* ------------------------------------------------------------------------
\* isGSDataTable on its own: the argument is drawn from tables that lack
\* none or one of the splat columns, with and without another column, in
\* two column orders, with and without rows
\* ------------------------------------------------------------------------

Without(names, missing) ==
    IF missing = 0 THEN names
    ELSE SubSeq(names, 1, missing - 1) \o SubSeq(names, missing + 1, Len(names))

Reversed(names) == [i \in 1..Len(names) |-> names[Len(names) + 1 - i]]

SchemaTable(missing, extra, reversed, rows) ==
    LET kept == Without(SplatColumns, missing)
        all == IF extra THEN << "f_rest_0" >> \o kept ELSE kept
    IN  NamedTable(IF reversed THEN Reversed(all) ELSE all, rows)

SchemaTables ==
    { SchemaTable(missing, extra, reversed, rows) :
        missing \in 0..Len(SplatColumns), extra \in BOOLEAN,
        reversed \in BOOLEAN, rows \in 0..MaxRows }
    \cup { NamedTable(<< "x", "y", "z" >>, 1),
           NamedTable(<< "opacity" >>, 1) }

InitSchema ==
    /\ InitCalls
    /\ fs = [p \in Paths |-> Absent]
    /\ pre = [c \in Calls |-> [p \in Paths |-> Absent]]
    /\ dataTables = << >>
    /\ combined = NoTable
    /\ argFilename = NoPath
    /\ format = << >>
    /\ argTable \in SchemaTables
    /\ isGS = << >>

\* isGS = isGSDataTable(argTable)
DoIsGSDataTable ==
    /\ isGS = << >>
    /\ isGS' = << isGSDataTable(argTable) >>
    /\ UNCHANGED << callVars, dataTables, combined, argFilename, format, argTable >>

NextSchema == DoIsGSDataTable

SpecSchema == InitSchema /\ [][NextSchema]_vars

\* ------------------------------------------------------------------------
\* Properties of combine
\* ------------------------------------------------------------------------

IdentityOf(column) == << column.name, column.dataType >>

IdentitiesOf(table) ==
    {IdentityOf(table.columns[j]) : j \in 1..Len(table.columns)}

\* the sum of numRows of the tables before table i
RowsBefore(tables, i) ==
    LET RECURSIVE Sum(_)
        Sum(k) == IF k = 0 THEN 0 ELSE numRows(tables[k]) + Sum(k - 1)
    IN  Sum(i - 1)

\* the output columns that carry an identity
OutputColumns(id) ==
    {k \in 1..Len(combined.columns) : IdentityOf(combined.columns[k]) = id}

SharedIdentity(tables) ==
    \E id \in Identities : \A i \in 1..Len(tables) : id \in IdentitiesOf(tables[i])

Combined == combined # NoTable

\* C9: for a nonempty sequence of tables sharing a column identity, the
\* result of combine has the sum of the inputs' rows, and every column of
\* every input table is found, row for row, in the output column of its
\* identity from the table's row offset on.
C9_RowsPreserved ==
    (Combined /\ SharedIdentity(dataTables)) =>
        /\ numRows(combined) = RowsBefore(dataTables, Len(dataTables) + 1)
        /\ \A i \in 1..Len(dataTables) :
            \A j \in 1..Len(dataTables[i].columns) :
                LET column == dataTables[i].columns[j]
                    outs == OutputColumns(IdentityOf(column))
                IN  /\ outs # {}
                    /\ \A k \in outs : \A r \in 1..numRows(dataTables[i]) :
                        combined.columns[k].data[RowsBefore(dataTables, i) + r]
                            = column.data[r]

\* two tables with rows, sharing an identity, the second also bringing one
\* of its own, have been combined
C9_Witness ==
    /\ Combined
    /\ Len(dataTables) = 2
    /\ SharedIdentity(dataTables)
    /\ numRows(dataTables[1]) > 0
    /\ numRows(dataTables[2]) > 1
    /\ IdentitiesOf(dataTables[2]) \ IdentitiesOf(dataTables[1]) # {}

\* C10: the rows of an output column that fall in the row range of an
\* input table without the column's identity hold the zero of the element
\* type; a column of the same name and another type does not count.
C10_ZeroFill ==
    Combined =>
        \A k \in 1..Len(combined.columns) : \A i \in 1..Len(dataTables) :
            IdentityOf(combined.columns[k]) \notin IdentitiesOf(dataTables[i]) =>
                \A r \in 1..numRows(dataTables[i]) :
                    combined.columns[k].data[RowsBefore(dataTables, i) + r]
                        = Zero(combined.columns[k].dataType)

\* the second table has rows and lacks an identity of the first, of which
\* it has the name under another type
C10_Witness ==
    /\ Combined
    /\ Len(dataTables) = 2
    /\ numRows(dataTables[1]) > 0
    /\ numRows(dataTables[2]) > 0
    /\ \E id \in IdentitiesOf(dataTables[1]) :
        /\ id \notin IdentitiesOf(dataTables[2])
        /\ \E other \in IdentitiesOf(dataTables[2]) :
            other[1] = id[1] /\ other[2] # id[2]

\* C11: combine of a sequence of one table is that table: the same columns
\* in the same order with the same data, also when the table has no rows.
C11_SingletonIdentity ==
    (Combined /\ Len(dataTables) = 1) => combined = dataTables[1]

\* a single table of two columns and no rows has been combined
C11_Witness ==
    /\ Combined
    /\ Len(dataTables) = 1
    /\ Len(dataTables[1].columns) = 2
    /\ numRows(dataTables[1]) = 0

\* the first place an identity occurs in the input: table, then column
FirstTable(id) ==
    CHOOSE i \in 1..Len(dataTables) :
        /\ id \in IdentitiesOf(dataTables[i])
        /\ \A k \in 1..(i - 1) : id \notin IdentitiesOf(dataTables[k])

FirstColumn(id) ==
    CHOOSE j \in 1..Len(dataTables[FirstTable(id)].columns) :
        /\ IdentityOf(dataTables[FirstTable(id)].columns[j]) = id
        /\ \A k \in 1..(j - 1) :
            IdentityOf(dataTables[FirstTable(id)].columns[k]) # id

EndsIn(s, suffix) ==
    /\ Len(suffix) <= Len(s)
    /\ \A i \in 1..Len(suffix) :
        UpperChar(s[Len(s) - Len(suffix) + i]) = UpperChar(suffix[i])

\* the suffix tests in their order, each with the kind it stands for
OutputRules ==
    << << { Suffix_csv }, "csv" >>,
       << { Suffix_lod_meta_json }, "lod" >>,
       << { Suffix_sog, Suffix_meta_json }, "sog" >>,
       << { Suffix_compressed_ply }, "compressed-ply" >>,
       << { Suffix_ply }, "ply" >>,
       << { Suffix_html }, "html" >> >>

RuleMatches(k, s) == \E suffix \in OutputRules[k][1] : EndsIn(s, suffix)

\* C12: the kind getOutputFormat returns is that of the first rule, in the
\* order csv, lod, sog, compressed-ply, ply, html, one of whose suffixes the
\* filename ends in, letter case ignored; so a name in .compressed.ply is
\* compressed-ply and never ply, a name in lod-meta.json is lod and never
\* sog; a name no rule matches is refused as unsupported.
C12_FirstMatchWins ==
    format # << >> =>
        /\ \A k \in 1..Len(OutputRules) :
            (RuleMatches(k, argFilename)
                /\ \A j \in 1..(k - 1) : ~RuleMatches(j, argFilename))
            => format[1] = OutputRules[k][2]
        /\ (\A k \in 1..Len(OutputRules) : ~RuleMatches(k, argFilename))
            <=> format[1] = "unsupported"
        /\ EndsIn(argFilename, Suffix_compressed_ply)
            => format[1] = "compressed-ply"
        /\ EndsIn(argFilename, Suffix_lod_meta_json) => format[1] = "lod"

\* a name in .compressed.ply with capitals, which also ends in .ply, has
\* been resolved
C12_Witness ==
    /\ format = << "compressed-ply" >>
    /\ argFilename # toLowerCase(argFilename)
    /\ EndsIn(argFilename, Suffix_ply)

\* ------------------------------------------------------------------------
\* Properties of writeFile and convertGsplat
\* ------------------------------------------------------------------------

Target(c) == outputFilename[c]

\* everything the writer selected for the invocation's output format makes
\* of its table; nothing where writeFile selects no writer
CodecOutput(c) ==
    LET writer == writerOf(getOutputFormat(Target(c)))
    IN  IF writer = "none" THEN << >>
        ELSE [i \in 1..OutLen |-> Chunk(writer, dataTable[c])]

\* C1: while writeFile runs and when it has failed, the target holds what it
\* held before the call; once the rename is done it holds the complete
\* output written to the temporary file; no other target changes.  The
\* target is never partially written.
C1_TargetOldOrComplete ==
    \A c \in Calls : pc[c] # "idle" =>
        \A p \in OutputNames :
            fs[p] = IF result[c] = "ok" /\ p = Target(c)
                    THEN CodecOutput(c) ELSE pre[c][p]

\* the writer is half way through the temporary file of a target that holds
\* old content
C1_Witness ==
    \E c \in Calls :
        /\ pc[c] = "write"
        /\ Len(fs[tmpPathname[c]]) = 1
        /\ fs[Target(c)] = OldContent

\* C2: no exception escapes convertGsplat: an invocation that has ended has
\* returned exactly one result, success or failure with the error, and an
\* invocation that has not ended can take its next step.
C2_AlwaysAResult ==
    \A c \in Calls :
        /\ result[c] \in {"none", "ok", "fail"}
        /\ pc[c] = "returned" <=> result[c] \in {"ok", "fail"}
        /\ result[c] = "fail" <=> error[c] # "none"
        /\ pc[c] \notin {"idle", "returned"} => ENABLED Step(c)

\* the rename, the last step of all, failed and the failure was returned
C2_Witness ==
    \E c \in Calls :
        pc[c] = "returned" /\ result[c] = "fail" /\ error[c] = "rename"

\* C3: when the writer codec has failed and writeFile has returned the
\* failure, the target is as before the call (not renamed onto) and the
\* temporary file is still in the directory.
C3_CodecFailureLeavesTarget ==
    \A c \in Calls : (pc[c] = "returned" /\ error[c] = "codec") =>
        /\ result[c] = "fail"
        /\ fs[Target(c)] = pre[c][Target(c)]
        /\ fs[tmpPathname[c]] # Absent
        /\ outputFile[c] \in {"closed", "closeFailed"}

\* the codec failed after one chunk, on a target with old content
C3_Witness ==
    \E c \in Calls :
        /\ pc[c] = "returned" /\ error[c] = "codec"
        /\ Len(fs[tmpPathname[c]]) = 1
        /\ fs[Target(c)] = OldContent

\* C4 as stated: after a successful writeFile the target holds the final
\* content and the directory holds no temporary file at all.
C4_NoTmpAtAll ==
    \A c \in Calls : result[c] = "ok" =>
        /\ fs[Target(c)] = CodecOutput(c)
        /\ \A p \in TmpPaths : fs[p] = Absent

\* C4: after a successful writeFile the target holds the final content and
\* the temporary file of that call is gone; the temporary files that were
\* in the directory before the call (left by failed calls) are still there.
C4_OwnTmpGone ==
    \A c \in Calls : result[c] = "ok" =>
        /\ fs[Target(c)] = CodecOutput(c)
        /\ fs[tmpPathname[c]] = Absent
        /\ \A p \in TmpPaths : fs[p] = pre[c][p]

\* a call succeeded on a target with old content, after a failed call
C4_Witness ==
    \E c \in Calls :
        /\ result[c] = "ok"
        /\ pre[c][Target(c)] = OldContent
        /\ \E p \in TmpPaths : fs[p] # Absent

\* the file data readFile returns for the invocation's input
ReadData(c) ==
    fileDataOf(getInputReader(filename[c]), InputContent(filename[c]).parsed)

RequiredColumns ==
    { "x", "y", "z", "rot_0", "rot_1", "rot_2", "rot_3",
      "scale_0", "scale_1", "scale_2", "f_dc_0", "f_dc_1", "f_dc_2",
      "opacity" }

HasSplatSchema(table) ==
    RequiredColumns \subseteq
        {table.columns[j].name : j \in 1..Len(table.columns)}

\* the invocation has come to the call of writeFile
WritingReached(c) ==
    \/ pc[c] \in {"writeFile", "openTmp", "write", "sync", "close", "rename"}
    \/ /\ pc[c] = "returned"
       /\ \/ result[c] = "ok"
          \/ error[c] \in {"resolve", "openTmp", "codec", "sync", "rename"}

\* C5: writing is reached only with an input of exactly one element, named
\* vertex, whose table has rows and the splat schema, and with rows left
\* after the second processing; until then no file of the directory has
\* changed, and an invocation that ends before it returns the failure.
C5_ValidatedBeforeWriting ==
    \A c \in Calls : pc[c] # "idle" =>
        IF WritingReached(c)
        THEN /\ InputContent(filename[c]).status = "ok"
             /\ Len(ReadData(c).elements) = 1
             /\ ReadData(c).elements[1].name = "vertex"
             /\ numRows(ReadData(c).elements[1].dataTable) # 0
             /\ HasSplatSchema(ReadData(c).elements[1].dataTable)
             /\ numRows(dataTable[c]) # 0
        ELSE /\ fs = pre[c]
             /\ pc[c] = "returned" => result[c] = "fail"

\* the ply file with x, y, z only was refused and the target not created
C5_Witness ==
    \E c \in Calls :
        /\ pc[c] = "returned" /\ result[c] = "fail" /\ error[c] = "validate"
        /\ filename[c] = In_x_ply
        /\ Target(c) = Out_o_ply
        /\ fs[Out_o_ply] = Absent

ColumnNames(table) == {table.columns[j].name : j \in 1..Len(table.columns)}

\* the names of the splat schema whose absence alone makes isGSDataTable
\* refuse a table that has every other name
DecisiveNames ==
    { SplatColumns[k] : k \in
        { m \in 1..Len(SplatColumns) :
            ~isGSDataTable(SchemaTable(m, FALSE, FALSE, 1)) } }

\* C13 as stated: isGSDataTable accepts a table exactly when it has all the
\* required columns x, y, z, rot_0..3, scale_0..2, f_dc_0..2, opacity, and
\* these required columns are 13.
C13_ThirteenRequired ==
    isGS # << >> =>
        /\ isGS[1] <=> RequiredColumns \subseteq ColumnNames(argTable)
        /\ Cardinality(DecisiveNames) = 13

\* C13: isGSDataTable accepts a table exactly when it has all the 14
\* columns x, y, z, rot_0..3, scale_0..2, f_dc_0..2, opacity, whatever the
\* order of the columns and whatever other columns it has; the absence of
\* any one of the 14 makes it refuse; the table is left as it was.
C13_FourteenRequired ==
    /\ argTable \in SchemaTables
    /\ isGS # << >> =>
        /\ isGS[1] <=> RequiredColumns \subseteq ColumnNames(argTable)
        /\ DecisiveNames = RequiredColumns
        /\ Cardinality(RequiredColumns) = 14

\* a table in reverse column order that has another column and lacks only
\* opacity has been refused
C13_Witness ==
    /\ isGS = << FALSE >>
    /\ argTable = SchemaTable(Len(SplatColumns), TRUE, TRUE, 1)
    /\ RequiredColumns \ ColumnNames(argTable) = { "opacity" }

\* a step of writeFile as it would be with the options opts: only the
\* rename is handed the options
WriteStepWith(c, opts) ==
    \/ WriteFileEnter(c) \/ OpenTmp(c) \/ WriteChunk(c) \/ WriteDone(c)
    \/ WriteFail(c) \/ Sync(c) \/ CloseTmp(c) \/ RenameWith(c, opts)

OverwriteSet(opts, overwrite) == [opts EXCEPT !.overwrite = overwrite]

C14_RenameReplaces ==
    \A c \in Calls : result[c] = "ok" =>
        /\ fs[Target(c)] = CodecOutput(c)
        /\ fs[tmpPathname[c]] = Absent

C14_SameStep ==
    \A c \in Calls : \A overwrite \in BOOLEAN :
        WriteStep(c) => WriteStepWith(c, OverwriteSet(options[c], overwrite))

\* C14: every step of writeFile, with its file operation, its effect on
\* the directory and its outcome, is the same step under the other value
\* of options.overwrite, so two runs that differ in that option alone go
\* the same way; and a rename that succeeds replaces the target, whether
\* or not it existed and whatever the option.
C14_OverwriteIgnored == [](C14_RenameReplaces) /\ [][C14_SameStep]_vars

\* with overwrite false, writeFile has replaced a target that existed
C14_Witness ==
    \E c \in Calls :
        /\ result[c] = "ok"
        /\ ~options[c].overwrite
        /\ pre[c][Target(c)] = OldContent
        /\ fs[Target(c)] = CodecOutput(c)
        /\ CodecOutput(c) # << >>

Writers == { "writeSog", "writeLod", "writeCompressedPly", "writePly" }

\* the place of an operation in the order of writeFile
Rank(op) ==
    CASE op = "getOutputFormat" -> 1
      [] op = "openTmp" -> 2
      [] op \in Writers -> 3
      [] op = "sync" -> 4
      [] op = "closeTmp" -> 5
      [] op = "rename" -> 6
      [] OTHER -> 0

Issued(c, op) == \E i \in 1..Len(ops[c]) : ops[c][i] = op

\* C15: writeFile issues its operations in the order resolve, exclusive
\* create, writer, sync, close, rename, none twice.  A name of no output
\* kind fails at the resolution, nothing created or opened; a failed create
\* is followed by nothing; a failed writer is followed by the close alone,
\* never by the sync; the close comes after the sync or after the failed
\* writer; the rename comes only after a sync that succeeded and after the
\* close.
C15_StepOrder ==
    \A c \in Calls : pc[c] # "idle" =>
        /\ \A i \in 1..Len(ops[c]) : Rank(ops[c][i]) > 0
        /\ \A i, j \in 1..Len(ops[c]) :
            i < j => Rank(ops[c][i]) < Rank(ops[c][j])
        /\ Len(ops[c]) > 0 => ops[c][1] = "getOutputFormat"
        /\ error[c] = "resolve" =>
            /\ ops[c] = << "getOutputFormat" >>
            /\ outputFile[c] = "none" /\ tmpPathname[c] = NoPath
            /\ fs = pre[c]
        /\ error[c] = "openTmp" =>
            /\ ops[c] = << "getOutputFormat", "openTmp" >>
            /\ outputFile[c] = "none"
            /\ fs = pre[c]
        /\ (\E w \in Writers : Issued(c, w)) =>
            (Issued(c, "openTmp") /\ outputFile[c] # "none")
        /\ pc[c] = "sync" => pending[c] = "none"
        /\ pending[c] = "codec" =>
            (~Issued(c, "sync") /\ ~Issued(c, "rename"))
        /\ Issued(c, "sync") => outputFile[c] # "none"
        /\ Issued(c, "closeTmp") =>
            /\ outputFile[c] \in {"closed", "closeFailed"}
            /\ Issued(c, "sync") \/ pending[c] = "codec"
        /\ (pc[c] = "rename" \/ Issued(c, "rename")) =>
            /\ Issued(c, "sync") /\ pending[c] = "none"
            /\ Issued(c, "closeTmp")

\* the writer failed and the close followed it at once; no sync, no rename
C15_Witness ==
    \E c \in Calls :
        /\ pc[c] = "returned" /\ error[c] = "codec"
        /\ ops[c] = << "getOutputFormat", "openTmp", "writePly", "closeTmp" >>

Readers ==
    { "readMjs", "readKsplat", "readSplat", "readSog", "readPly", "readSpz" }

Count(c, op) == Cardinality({i \in 1..Len(ops[c]) : ops[c][i] = op})

\* the stage of the i-th operation of an invocation: 1 Reading,
\* 2 Validating, 3 Processing1, 4 Combining, 5 Processing2, 6 Writing
StageAt(c, i) ==
    LET op == ops[c][i]
    IN  CASE op \in Readers \cup {"open", "decompressPly", "closeInput"} -> 1
          [] op = "validate" -> 2
          [] op = "processDataTable" ->
                IF \E k \in 1..(i - 1) : ops[c][k] = "combine" THEN 5 ELSE 3
          [] op = "combine" -> 4
          [] Rank(op) > 0 -> 6
          [] OTHER -> 0

\* the stage in which a failure arose
FailedStage(stage) ==
    CASE stage \in {"openInput", "reader", "closeInput", "unsupportedInput"} -> 1
      [] stage = "validate" -> 2
      [] stage = "process1" -> 3
      [] stage \in {"process2", "empty"} -> 5
      [] stage \in {"resolve", "openTmp", "codec", "sync", "rename"} -> 6
      [] OTHER -> 0

\* C16: the operations of an invocation go through Reading, Validating,
\* Processing1, Combining, Processing2, Writing in that order, no stage
\* entered again once left; validation, the first processDataTable,
\* combine and the second processDataTable are each issued at most once,
\* and exactly once, in that order, when writing is reached; a failure is
\* returned from the stage it arose in, no operation of a later stage
\* issued; success is returned only after the rename, the last operation
\* of Writing.
C16_LinearStages ==
    \A c \in Calls : pc[c] # "idle" =>
        /\ \A i \in 1..Len(ops[c]) : StageAt(c, i) > 0
        /\ \A i, j \in 1..Len(ops[c]) :
            i < j => StageAt(c, i) <= StageAt(c, j)
        /\ \A st \in 2..5 :
            Cardinality({i \in 1..Len(ops[c]) : StageAt(c, i) = st}) <= 1
        /\ WritingReached(c) =>
            /\ Count(c, "validate") = 1
            /\ Count(c, "combine") = 1
            /\ Count(c, "processDataTable") = 2
            /\ \A st \in 1..5 : \E i \in 1..Len(ops[c]) : StageAt(c, i) = st
        /\ result[c] = "fail" =>
            /\ pc[c] = "returned"
            /\ FailedStage(error[c]) > 0
            /\ Len(ops[c]) > 0
            /\ \A i \in 1..Len(ops[c]) : StageAt(c, i) <= FailedStage(error[c])
            /\ StageAt(c, Len(ops[c])) = FailedStage(error[c])
        /\ result[c] = "ok" =>
            /\ pc[c] = "returned"
            /\ ops[c][Len(ops[c])] = "rename"
        /\ pc[c] = "returned" => result[c] \in {"ok", "fail"}

\* the first processDataTable failed: the failure was returned with
\* nothing of combining, the second processing or writing issued
C16_Witness ==
    \E c \in Calls :
        /\ pc[c] = "returned" /\ error[c] = "process1"
        /\ ops[c] = << "open", "readPly", "closeInput", "validate",
                       "processDataTable" >>

\* the writer codec of each output kind
WriterOfKind(kind) ==
    CASE kind = "csv" -> "writeCsv"
      [] kind = "lod" -> "writeLod"
      [] kind = "sog" -> "writeSog"
      [] kind = "compressed-ply" -> "writeCompressedPly"
      [] kind = "ply" -> "writePly"
      [] kind = "html" -> "writeHtml"
      [] OTHER -> "none"

WriterCalls(c) ==
    {i \in 1..Len(ops[c]) : \E kind \in {"csv", "lod", "sog", "compressed-ply",
                                          "ply", "html"} :
                                ops[c][i] = WriterOfKind(kind)}

\* C17 as stated: when the rename has been issued, and so when the success
\* result is returned, exactly one writer codec has been invoked on the
\* temporary file before, the one of the resolved output kind, and it has
\* completed without error; for every kind the resolution accepts.
C17_WriterBeforeRename ==
    \A c \in Calls : (Issued(c, "rename") \/ result[c] = "ok") =>
        /\ Cardinality(WriterCalls(c)) = 1
        /\ \A i \in WriterCalls(c) :
            /\ ops[c][i] = WriterOfKind(getOutputFormat(Target(c)))
            /\ \E j \in 1..Len(ops[c]) : j > i /\ ops[c][j] = "rename"
        /\ pending[c] = "none"

HandleOpen(c) == outputFile[c] = "open"

C19_OneWriterPerTmp ==
    /\ \A c, d \in Calls :
        (c # d /\ HandleOpen(c) /\ HandleOpen(d)) =>
            tmpPathname[c] # tmpPathname[d]
    /\ \A c \in Calls : error[c] = "openTmp" =>
        /\ result[c] = "fail"
        /\ outputFile[c] = "none"
        /\ WriterCalls(c) = {}
        /\ ops[c][Len(ops[c])] = "openTmp"

C19_OpenExisting ==
    \A c \in Calls :
        (pc[c] = "openTmp" /\ pc'[c] # "openTmp"
            /\ fs[tmpPathname[c]] # Absent) =>
            /\ pc'[c] = "returned"
            /\ result'[c] = "fail" /\ error'[c] = "openTmp"
            /\ outputFile'[c] = "none"
            /\ fs' = fs
            /\ lastRename' = lastRename

C19_WriteOwnTmp ==
    \A p \in TmpPaths : fs'[p] # fs[p] =>
        \E c \in Calls :
            /\ tmpPathname[c] = p
            /\ \/ pc[c] = "openTmp" /\ fs[p] = Absent /\ HandleOpen(c)'
               \/ pc[c] = "write" /\ HandleOpen(c)
               \/ pc[c] = "rename"
            /\ \A d \in Calls \ {c} : tmpPathname[d] = p => ~HandleOpen(d)

\* C19: the open of a temporary pathname that exists, left by a failed
\* call or held by a concurrent one, fails: the call returns that failure
\* with no writer invoked and no file of the directory changed.  So no two
\* calls have the same temporary file open, and a temporary file changes
\* only by the call that created it.
C19_ExclusiveCreate ==
    [](C19_OneWriterPerTmp) /\ [][C19_OpenExisting /\ C19_WriteOwnTmp]_vars

\* a call failed at the open of the temporary pathname a concurrent call
\* holds open, half written
C19_Witness ==
    \E c, d \in Calls :
        /\ c # d
        /\ pc[d] = "returned" /\ error[d] = "openTmp"
        /\ tmpPathname[d] = tmpPathname[c]
        /\ pc[c] = "write" /\ HandleOpen(c)
        /\ Len(fs[tmpPathname[c]]) = 1

\* the suffix tests of the input resolution in their order, each with the
\* reader it selects
InputRules ==
    << << { Suffix_mjs }, "readMjs" >>,
       << { Suffix_ksplat }, "readKsplat" >>,
       << { Suffix_splat }, "readSplat" >>,
       << { Suffix_sog, Suffix_meta_json }, "readSog" >>,
       << { Suffix_ply }, "readPly" >>,
       << { Suffix_spz }, "readSpz" >> >>

InputRuleMatches(k, s) == \E suffix \in InputRules[k][1] : EndsIn(s, suffix)

\* the reader of the first rule the filename matches, letter case ignored
ReaderFor(s) ==
    IF \A k \in 1..Len(InputRules) : ~InputRuleMatches(k, s) THEN "none"
    ELSE InputRules[CHOOSE k \in 1..Len(InputRules) :
                        /\ InputRuleMatches(k, s)
                        /\ \A j \in 1..(k - 1) : ~InputRuleMatches(j, s)][2]

ReaderCalls(c) == {i \in 1..Len(ops[c]) : ops[c][i] \in Readers}

\* readFile is over and it did not fail at the open
ReadPastOpen(c) ==
    /\ pc[c] \notin {"readMjs", "openInput", "reader"}
    /\ error[c] # "openInput"

\* C20: readFile invokes at most one reader, the one of the first suffix
\* rule the filename matches whatever its letter case, and exactly that one
\* once the handle is open.  A .mjs input is read with no handle opened;
\* for any other input the open is the first operation.  A ply file is
\* decompressed exactly when its parsed content is compressed ply, whatever
\* its name.  A filename no rule matches is refused as unsupported with no
\* reader invoked.
C20_OneReaderBySuffix ==
    \A c \in Calls : pc[c] # "idle" =>
        LET reader == ReaderFor(filename[c])
            content == InputContent(filename[c])
            compressed == /\ reader = "readPly" /\ content.status = "ok"
                          /\ isCompressedPly(content.parsed)
        IN  /\ Cardinality(ReaderCalls(c)) <= 1
            /\ \A i \in ReaderCalls(c) : ops[c][i] = reader
            /\ ReadPastOpen(c) =>
                    Cardinality(ReaderCalls(c)) = IF reader = "none" THEN 0 ELSE 1
            /\ IF reader = "readMjs"
               THEN /\ inputFile[c] = "none"
                    /\ ~Issued(c, "open")
               ELSE /\ Len(ops[c]) > 0 => ops[c][1] = "open"
                    /\ ReaderCalls(c) # {} => inputFile[c] # "none"
            /\ Issued(c, "decompressPly") <=>
                    (compressed /\ ReaderCalls(c) # {})
            /\ pc[c] \in {"closeInput", "validate"} =>
                    file[c] = IF compressed
                              THEN FileRecord(<< Element("vertex",
                                        decompressPly(content.parsed)) >>)
                              ELSE content.parsed
            /\ (reader = "none" /\ ReadPastOpen(c)) =>
                /\ pc[c] \in {"closeUnsupported", "returned"}
                /\ pc[c] = "returned" =>
                    /\ result[c] = "fail"
                    /\ error[c] \in {"unsupportedInput", "closeInput"}
                    /\ inputFile[c] = "closed" => error[c] = "unsupportedInput"

\* a file named .ply whose content is compressed ply has been read and
\* decompressed
C20_Witness ==
    \E c \in Calls :
        /\ filename[c] = In_c_ply
        /\ pc[c] = "validate"
        /\ ops[c] = << "open", "readPly", "decompressPly", "closeInput" >>
        /\ inputFile[c] = "closed"

\* C6 as stated: once readFile is over, by return or by exception, the
\* input handle it opened is not open any more.
C6_InputHandleClosed ==
    \A c \in Calls :
        pc[c] \notin {"openInput", "reader", "closeUnsupported", "closeInput"}
            => inputFile[c] # "open"

\* C7: once opened, the temporary file's handle gets exactly one close,
\* after the writer and the sync and before the rename, whatever failed; an
\* error of the close itself is never the error of the call.
C7_OutputHandleClosedOnce ==
    \A c \in Calls :
        /\ closeAttempts[c] <= 1
        /\ outputFile[c] = "open" =>
            (pc[c] \in {"write", "sync", "close"} /\ closeAttempts[c] = 0)
        /\ (outputFile[c] # "none" /\ pc[c] \in {"rename", "returned"}) =>
            (outputFile[c] \in {"closed", "closeFailed"} /\ closeAttempts[c] = 1)
        /\ outputFile[c] = "none" => closeAttempts[c] = 0
        /\ error[c] # "close"

\* the close failed, the error was swallowed and the rename done
C7_Witness ==
    \E c \in Calls :
        /\ pc[c] = "returned" /\ result[c] = "ok"
        /\ outputFile[c] = "closeFailed"
        /\ fs[Target(c)] = CodecOutput(c)
        /\ CodecOutput(c) # << >>

\* C8: a target holds its initial content until a conversion renames onto
\* it, and from then on the complete output of the conversion that renamed
\* last; a target changes only by the rename of a conversion of that target.
C8_TargetState ==
    \A p \in OutputNames :
        IF lastRename[p] = 0
        THEN fs[p] \in {Absent, OldContent}
        ELSE /\ Target(lastRename[p]) = p
             /\ fs[p] = CodecOutput(lastRename[p])

C8_TargetStep ==
    \A p \in OutputNames : fs'[p] # fs[p] =>
        \E c \in Calls :
            /\ pc[c] = "rename" /\ result'[c] = "ok"
            /\ Target(c) = p
            /\ lastRename'[p] = c
            /\ fs[tmpPathname[c]] = CodecOutput(c)
            /\ fs'[p] = CodecOutput(c)

C8_LastRenameWins == [](C8_TargetState) /\ [][C8_TargetStep]_vars

\* two conversions of different inputs renamed onto the same target, the
\* first caller last
C8_Witness ==
    \E c, d \in Calls :
        /\ c # d
        /\ result[c] = "ok" /\ result[d] = "ok"
        /\ Target(c) = Target(d)
        /\ CodecOutput(c) # CodecOutput(d)
        /\ lastRename[Target(c)] = c
        /\ fs[Target(c)] = CodecOutput(c)

====
